---- MODULE Spec2Model ----
(***************************************************************************)
(* A model of fight_word_generator.py: FontManager, TextRenderer,          *)
(* ImageDistorter and WordGenerator.                                       *)
(*                                                                         *)
(* Conventions.                                                            *)
(*  - An image is a record [w, h, px] with px[x, y] in 0..255 ("L" mode,   *)
(*    0 = black, 255 = white), x in 0..w-1, y in 0..h-1.                   *)
(*  - Python floats are modelled by exact fixed-point rationals; int() is  *)
(*    truncation toward zero (Trunc).                                      *)
(*  - The `random` module is one global generator: a state that every draw *)
(*    advances deterministically (RngNext); random.seed fixes the state.   *)
(*  - An operation that can raise returns a record with a field `raised`   *)
(*    ("none" when it returns normally).                                   *)
(***************************************************************************)
EXTENDS Integers, Sequences, FiniteSets, TLC

VARIABLES
    width, height,      \* WordGenerator.width / .height
    distortions,        \* ImageDistorter.enabled_distortions
    font_names,         \* FontManager.font_names
    font_paths,         \* FontManager.font_paths (resolved at construction)
    font_env,           \* which font files the file system can load
    negate, seed,       \* per run: WordGenerator.negate / .seed
    rng,                \* per run: state of the global random generator
    calls,              \* per run: words passed to generate so far
    outs,               \* per run: what each generate call returned
    draws,              \* per run: number of random draws consumed so far
    raised,             \* per run: exception that ended the run, or "none"
    font_cache,         \* per run: FontManager.font_cache (set of keys)
    warnings,           \* per run: number of warnings printed
    files,              \* per run: output directory, filename -> bitmap
    arg, ret, pc        \* an isolated call: its inputs, its result, its state

vars == <<width, height, distortions, font_names, font_paths, font_env, negate, seed, rng,
          calls, outs, draws, raised, font_cache, warnings, files, arg, ret, pc>>

progVars == <<width, height, distortions, font_names, font_paths, font_env, negate, seed,
              rng, calls, outs, draws, raised, font_cache, warnings, files>>

(***************************************************************************)
(* Bounds of the model.                                                    *)
(***************************************************************************)
MaxBoxWidth == 32       \* calculate_font_size: max_width in 1..MaxBoxWidth
MaxBoxHeight == 96      \* calculate_font_size: max_height in 1..MaxBoxHeight
MaxWordLen == 8         \* calculate_font_size: len(text) in 0..MaxWordLen
MaxScanWidth == 3       \* get_content_bounds: image width in 1..MaxScanWidth
MaxScanHeight == 3      \* get_content_bounds: image height in 1..MaxScanHeight
RngModulus == 11        \* the generator has RngModulus - 1 states
MaxEnabled == 3         \* apply_distortions: length of enabled_distortions
MaxDistortWidth == 4    \* apply_distortions: image width in 1..MaxDistortWidth
MaxDistortHeight == 4   \* apply_distortions: image height in 1..MaxDistortHeight
MaxPattern == 2         \* apply_distortions: test patterns 1..MaxPattern
MaxCropWidth == 6       \* scale_to_target: image width in 1..MaxCropWidth
MaxCropHeight == 6      \* scale_to_target: image height in 1..MaxCropHeight
MaxTargetWidth == 3     \* scale_to_target: self.width in 1..MaxTargetWidth
MaxTargetHeight == 3    \* scale_to_target: self.height in 1..MaxTargetHeight
MaxFontNames == 2       \* FontManager: length of font_names
MaxFontCalls == 3       \* FontManager: get_font calls in a row
MaxWidth == 3           \* WordGenerator.width in 1..MaxWidth
MaxHeight == 2          \* WordGenerator.height in 1..MaxHeight
MaxSeed == 0            \* WordGenerator.seed in None, 0..MaxSeed
MaxEntropy == 2         \* unseeded, the generator starts in 1..MaxEntropy
MaxCalls == 2           \* generate calls of a run
MaxLines == 2           \* process_word_list: lines of the input file
MaxFisheyeWidth == 5    \* apply_fisheye: image width in 1..MaxFisheyeWidth
MaxFisheyeHeight == 5   \* apply_fisheye: image height in 1..MaxFisheyeHeight

(***************************************************************************)
(* Arithmetic helpers.                                                     *)
(***************************************************************************)
Min(a, b) == IF a <= b THEN a ELSE b
Max(a, b) == IF a >= b THEN a ELSE b

SetMin(S) == CHOOSE m \in S : \A k \in S : m <= k
SetMax(S) == CHOOSE m \in S : \A k \in S : m >= k

\* The sequences over S of length at most n.
RECURSIVE SeqsUpTo(_, _)
SeqsUpTo(S, n) ==
    IF n = 0 THEN {<<>>}
    ELSE LET shorter == SeqsUpTo(S, n - 1)
         IN shorter \cup {Append(q, e) : q \in shorter, e \in S}

\* Python int() of the rational num/den (den > 0): truncation toward zero.
Trunc(num, den) == IF num >= 0 THEN num \div den ELSE -((-num) \div den)

(***************************************************************************)
(* The global random generator.                                            *)
(***************************************************************************)
RngStates == 1..(RngModulus - 1)

\* random.seed(seed): the state is a function of the seed alone.
RngSeed(s) == 1 + (s % (RngModulus - 1))

\* Every draw advances the state, deterministically.
RngNext(s) == 1 + ((2 * s + 2) % (RngModulus - 1))

\* random.uniform(a, b), in units where a and b are integers: one of five
\* evenly spaced levels of [a, b], decided by the state.
Uniform(s, a, b) == a + ((b - a) * (s % 5)) \div 4

\* random.randint(a, b): a <= result <= b.
RandInt(s, a, b) == a + (s % (b - a + 1))

\* random.choice(seq)
Choice(s, seq) == seq[1 + (s % Len(seq))]

(***************************************************************************)
(* FontManager                                                             *)
(*                                                                         *)
(* The file system is the record font_env: `exists` are the names that are *)
(* existing paths, `system` maps a name to the path the system font lookup *)
(* finds (or None), `loadable` are the paths ImageFont.truetype can load.  *)
(***************************************************************************)
None == "None"

Runs == {1, 2}

LiberationPath == "/usr/share/fonts/truetype/liberation/LiberationSans-Bold.ttf"
ArialPath == "arial.ttf"

\* The font names a run may configure: an existing file, a family the system
\* lookup finds, and a name that resolves to nothing.
FontNames == {"impact.ttf", "Comic Sans", "nosuchfont"}

SystemPaths == [n \in FontNames |-> IF n = "Comic Sans" THEN "/sys/comic.ttf" ELSE None]

ExistingPaths == {"impact.ttf"}

\* _find_font_file: the lookup is the font library's; its answer is font_env's.
find_font_file(env, font_name) == env.system[font_name]

\* _resolve_font_paths.  An existing path is appended in the first branch and
\* again by the test that follows the if/else.
RECURSIVE resolve_font_paths(_, _)
resolve_font_paths(env, names) ==
    IF names = <<>> THEN <<>>
    ELSE LET font_name == Head(names)
             first == IF font_name \in env.exists THEN <<font_name>> ELSE <<>>
             font_path == IF font_name \in env.exists THEN font_name
                          ELSE find_font_file(env, font_name)
             second == IF font_path # None THEN <<font_path>> ELSE <<>>
         IN first \o second \o resolve_font_paths(env, Tail(names))

NoFont == [kind |-> "none", path |-> None, size |-> 0]

\* ImageFont.truetype(path, size): a handle, or OSError.
truetype(env, path, size) ==
    IF path \in env.loadable
    THEN [raised |-> "none", font |-> [kind |-> "truetype", path |-> path, size |-> size]]
    ELSE [raised |-> "OSError", font |-> NoFont]

\* ImageFont.load_default(): the built-in bitmap font, whatever the size.
load_default == [kind |-> "builtin", path |-> None, size |-> 0]

\* A variant without the inner fallbacks: the first failure propagates.
get_default_font_unguarded(env, font_size) ==
    truetype(env, LiberationPath, font_size)

\* _get_default_font: every exception of a load leads to the next fallback.
get_default_font(env, font_size) ==
    IF truetype(env, LiberationPath, font_size).raised = "none"
    THEN truetype(env, LiberationPath, font_size)
    ELSE IF truetype(env, ArialPath, font_size).raised = "none"
    THEN truetype(env, ArialPath, font_size)
    ELSE [raised |-> "none", font |-> load_default]

\* get_font.  cache is font_cache (its keys; the handle of a key is the one
\* truetype gave for it), s the generator state.  The result carries the new
\* cache and state, the path chosen (None without named fonts) and whether
\* the warning was printed.
get_font(env, paths, cache, s, font_size) ==
    IF paths # <<>>
    THEN LET selected_font_path == Choice(s, paths)
             cache_key == <<selected_font_path, font_size>>
             loaded == truetype(env, selected_font_path, font_size)
         IN IF cache_key \notin cache /\ loaded.raised # "none"
            THEN [raised |-> get_default_font(env, font_size).raised,
                  font   |-> get_default_font(env, font_size).font,
                  chosen |-> selected_font_path, warned |-> TRUE,
                  cache  |-> cache, rng |-> RngNext(s), ndraws |-> 1]
            ELSE [raised |-> "none",
                  font   |-> [kind |-> "truetype", path |-> selected_font_path,
                              size |-> font_size],
                  chosen |-> selected_font_path, warned |-> FALSE,
                  cache  |-> cache \cup {cache_key}, rng |-> RngNext(s), ndraws |-> 1]
    ELSE [raised |-> get_default_font(env, font_size).raised,
          font   |-> get_default_font(env, font_size).font,
          chosen |-> None, warned |-> FALSE,
          cache  |-> cache, rng |-> s, ndraws |-> 0]

(***************************************************************************)
(* TextRenderer.calculate_font_size                                        *)
(***************************************************************************)
MinFontSize == 12
MaxFontSize == 64

\* A variant that divides exactly (max_width / len(text)) instead of flooring.
BaseFontSize10_TrueDiv(n, max_width, max_height) ==
    IF n <= 4 THEN Min((max_width * 30) \div n, max_height * 7)
    ELSE IF n <= 7 THEN Min((max_width * 25) \div n, max_height * 6)
    ELSE Min((max_width * 20) \div n, max_height * 5)

\* base_font_size in tenths, before clamping; n = len(text) >= 1.
\* max_width // len(text) is floor division; the factors are 3, 2.5, 2 and
\* 0.7, 0.6, 0.5.
BaseFontSize10(n, max_width, max_height) ==
    IF n <= 4 THEN Min((max_width \div n) * 30, max_height * 7)
    ELSE IF n <= 7 THEN Min((max_width \div n) * 25, max_height * 6)
    ELSE Min((max_width \div n) * 20, max_height * 5)

\* s is the generator state the call starts in; one draw (the variation).
calculate_font_size(n, max_width, max_height, s) ==
    IF n = 0
    THEN [raised |-> "ZeroDivisionError", size |-> 0, rng |-> s, ndraws |-> 0]
    ELSE LET base10 == Max(MinFontSize * 10,
                           Min(BaseFontSize10(n, max_width, max_height),
                               MaxFontSize * 10))
             variation == Uniform(s, 80, 120)          \* hundredths
             font_size == Trunc(base10 * variation, 1000)
         IN [raised |-> "none",
             size   |-> Max(MinFontSize, Min(font_size, MaxFontSize)),
             rng    |-> RngNext(s),
             ndraws |-> 1]

(***************************************************************************)
(* Images.                                                                 *)
(***************************************************************************)
Background == 255

NewImage(w, h, v) == [w |-> w, h |-> h, px |-> [x \in 0..(w - 1), y \in 0..(h - 1) |-> v]]

GetPixel(image, x, y) == image.px[x, y]

InBounds(image, x, y) == 0 <= x /\ x < image.w /\ 0 <= y /\ y < image.h

(***************************************************************************)
(* WordGenerator.get_content_bounds                                        *)
(***************************************************************************)
get_content_bounds(image) ==
    LET content == {p \in (0..(image.w - 1)) \X (0..(image.h - 1)) :
                        GetPixel(image, p[1], p[2]) < Background}
        left   == SetMin({image.w} \cup {p[1] : p \in content})
        top    == SetMin({image.h} \cup {p[2] : p \in content})
        right  == SetMax({0} \cup {p[1] : p \in content})
        bottom == SetMax({0} \cup {p[2] : p \in content})
    IN IF left >= right \/ top >= bottom
       THEN <<0, 0, image.w, image.h>>
       ELSE <<left, top, right + 1, bottom + 1>>

(***************************************************************************)
(* WordGenerator.scale_to_target                                           *)
(***************************************************************************)
\* image.crop(box), box = (left, upper, right, lower) inside the image.
Crop(image, box) ==
    [w |-> box[3] - box[1], h |-> box[4] - box[2],
     px |-> [x \in 0..(box[3] - box[1] - 1), y \in 0..(box[4] - box[2] - 1) |->
                GetPixel(image, x + box[1], y + box[2])]]

RECURSIVE SumPixels(_, _)
SumPixels(image, cells) ==
    IF cells = {} THEN 0
    ELSE LET c == CHOOSE c \in cells : TRUE
         IN GetPixel(image, c[1], c[2]) + SumPixels(image, cells \ {c})

\* image.resize((new_width, new_height), LANCZOS), both >= 1: the resampling
\* filter is the imaging library's; it is modelled by the mean of the source
\* cells each destination pixel covers, which like the filter yields
\* intermediate grey levels when shrinking.
Resize(image, new_width, new_height) ==
    LET Lo(i, n, m) == (i * m) \div n
        Hi(i, n, m) == Max(Lo(i, n, m) + 1, ((i + 1) * m + n - 1) \div n)
        Cells(x, y) == (Lo(x, new_width, image.w)..(Hi(x, new_width, image.w) - 1))
                       \X (Lo(y, new_height, image.h)..(Hi(y, new_height, image.h) - 1))
    IN [w |-> new_width, h |-> new_height,
        px |-> [x \in 0..(new_width - 1), y \in 0..(new_height - 1) |->
                   SumPixels(image, Cells(x, y)) \div Cardinality(Cells(x, y))]]

\* base.paste(image, (x_offset, y_offset)): the part outside base is clipped.
Paste(base, image, x_offset, y_offset) ==
    [w |-> base.w, h |-> base.h,
     px |-> [x \in 0..(base.w - 1), y \in 0..(base.h - 1) |->
                IF InBounds(image, x - x_offset, y - y_offset)
                THEN GetPixel(image, x - x_offset, y - y_offset)
                ELSE GetPixel(base, x, y)]]

\* int(crop * scale), scale = min(target_w / crop_w, target_h / crop_h).
ScaledSize(crop_width, crop_height, target_w, target_h) ==
    IF target_w * crop_height <= target_h * crop_width       \* scale_x <= scale_y
    THEN <<Trunc(crop_width * target_w, crop_width),
           Trunc(crop_height * target_w, crop_width)>>
    ELSE <<Trunc(crop_width * target_h, crop_height),
           Trunc(crop_height * target_h, crop_height)>>

\* The result records, besides the image, the values the method computes on
\* the way.  resize raises ValueError for a size below 1.
scale_to_target(image, target_w, target_h) ==
    LET content_bounds == get_content_bounds(image)
        cropped_img == Crop(image, content_bounds)
        crop_width == content_bounds[3] - content_bounds[1]
        crop_height == content_bounds[4] - content_bounds[2]
        new_size == ScaledSize(crop_width, crop_height, target_w, target_h)
        new_width == new_size[1]
        new_height == new_size[2]
        x_offset == (target_w - new_width) \div 2
        y_offset == (target_h - new_height) \div 2
        steps == [crop |-> <<crop_width, crop_height>>, new_size |-> new_size,
                  offset |-> <<x_offset, y_offset>>]
    IN IF new_width < 1 \/ new_height < 1
       THEN [raised |-> "ValueError", steps |-> steps]
       ELSE [raised |-> "none", steps |-> steps,
             img |-> Paste(NewImage(target_w, target_h, Background),
                           Resize(cropped_img, new_width, new_height),
                           x_offset, y_offset)]

(***************************************************************************)
(* ImageDistorter                                                          *)
(***************************************************************************)
all_distortions == <<"shear", "fisheye", "perspective">>

Range(seq) == {seq[i] : i \in DOMAIN seq}

\* ImageDistorter.__init__: None enables every distortion.
EnabledDistortions(enabled) == IF enabled = None THEN all_distortions ELSE enabled

\* Inverse mapping onto a fresh background image: the destination pixel takes
\* the source pixel src[x, y] when that is in bounds and stays background
\* otherwise.
Remap(image, src) ==
    [w |-> image.w, h |-> image.h,
     px |-> [x \in 0..(image.w - 1), y \in 0..(image.h - 1) |->
                IF InBounds(image, src[x, y][1], src[x, y][2])
                THEN GetPixel(image, src[x, y][1], src[x, y][2])
                ELSE Background]]

\* Two draws: shear_x in [-0.25, 0.25], shear_y in [-0.15, 0.15] (hundredths).
apply_shear(image, s) ==
    LET shear_x == Uniform(s, -25, 25)
        shear_y == Uniform(RngNext(s), -15, 15)
        src == [x \in 0..(image.w - 1), y \in 0..(image.h - 1) |->
                   <<Trunc(100 * x - shear_x * y, 100),
                     Trunc(100 * y - shear_y * x, 100)>>]
    IN [img |-> Remap(image, src), rng |-> RngNext(RngNext(s)), ndraws |-> 2]

\* l <= m * sqrt(d), for integers l, m and d >= 0.
LeqSqrt(l, m, d) ==
    IF l <= 0 /\ m >= 0 THEN TRUE
    ELSE IF l > 0 /\ m <= 0 THEN FALSE
    ELSE IF l > 0 THEN l * l <= m * m * d
    ELSE l * l >= m * m * d

\* delta / factor, where factor = 1 + strength * (1 - distance / max_radius),
\* distance = sqrt(dist2), strength in twentieths and max_radius in tenths,
\* equals 20 * radius10 * delta / ((20 + strength) * radius10 - 10 * strength *
\* distance), whose denominator is positive inside the radius.
\* FisheyeLeq(k, ...) is k <= delta / factor; FisheyeGeq(k, ...) is k >= it.
FisheyeLeq(k, delta, dist2, strength, radius10) ==
    LeqSqrt(radius10 * (k * (20 + strength) - 20 * delta), 10 * k * strength, dist2)

FisheyeGeq(k, delta, dist2, strength, radius10) ==
    LeqSqrt(radius10 * (20 * delta - k * (20 + strength)), -(10 * k * strength), dist2)

\* floor(delta / factor): delta / factor lies between 0 and delta (factor >= 1).
FisheyeFloor(delta, dist2, strength, radius10) ==
    SetMax({k \in (IF delta >= 0 THEN 0..delta ELSE delta..(-1)) :
                FisheyeLeq(k, delta, dist2, strength, radius10)})

\* int(center + delta / factor): the sum truncated toward zero.
FisheyeSrc(center, delta, dist2, strength, radius10) ==
    LET k == FisheyeFloor(delta, dist2, strength, radius10)
    IN IF center + k >= 0 \/ FisheyeGeq(k, delta, dist2, strength, radius10)
       THEN center + k
       ELSE center + k + 1

\* A variant that leaves background wherever it copies no source pixel.
apply_fisheye_on_background(image, s) ==
    LET w == image.w
        h == image.h
        center_x == (w \div 2) + RandInt(s, (-w) \div 6, w \div 6)
        center_y == (h \div 2) + RandInt(RngNext(s), (-h) \div 6, h \div 6)
        strength == Uniform(RngNext(RngNext(s)), 6, 18)
        radius10 == Min(w, h) * 7
        Dist2(x, y) == (x - center_x) * (x - center_x) + (y - center_y) * (y - center_y)
        Inside(x, y) == 100 * Dist2(x, y) < radius10 * radius10 /\ Dist2(x, y) > 0
        SrcX(x, y) == FisheyeSrc(center_x, x - center_x, Dist2(x, y), strength, radius10)
        SrcY(x, y) == FisheyeSrc(center_y, y - center_y, Dist2(x, y), strength, radius10)
    IN [img |-> [w |-> w, h |-> h,
                 px |-> [x \in 0..(w - 1), y \in 0..(h - 1) |->
                            IF Inside(x, y) /\ InBounds(image, SrcX(x, y), SrcY(x, y))
                            THEN GetPixel(image, SrcX(x, y), SrcY(x, y))
                            ELSE Background]],
        rng |-> RngNext(RngNext(RngNext(s))), ndraws |-> 3]

\* Three draws: the centre offsets and the strength in [0.3, 0.9] (twentieths).
apply_fisheye(image, s) ==
    LET w == image.w
        h == image.h
        center_x == (w \div 2) + RandInt(s, (-w) \div 6, w \div 6)
        center_y == (h \div 2) + RandInt(RngNext(s), (-h) \div 6, h \div 6)
        strength == Uniform(RngNext(RngNext(s)), 6, 18)
        radius10 == Min(w, h) * 7                      \* max_radius, in tenths
        Dist2(x, y) == (x - center_x) * (x - center_x) + (y - center_y) * (y - center_y)
        Inside(x, y) == 100 * Dist2(x, y) < radius10 * radius10 /\ Dist2(x, y) > 0
        SrcX(x, y) == FisheyeSrc(center_x, x - center_x, Dist2(x, y), strength, radius10)
        SrcY(x, y) == FisheyeSrc(center_y, y - center_y, Dist2(x, y), strength, radius10)
    IN [img |-> [w |-> w, h |-> h,
                 px |-> [x \in 0..(w - 1), y \in 0..(h - 1) |->
                            IF Inside(x, y) /\ InBounds(image, SrcX(x, y), SrcY(x, y))
                            THEN GetPixel(image, SrcX(x, y), SrcY(x, y))
                            ELSE GetPixel(image, x, y)]],
        rng |-> RngNext(RngNext(RngNext(s))), ndraws |-> 3]

Corners == <<"top", "bottom", "left", "right">>

\* Two draws: stretch_factor in [0.05, 0.25] (hundredths) and the corner.
\* With factor = fnum / (100 * extent), x / factor + width * (factor - 1) /
\* (2 * factor) = (200 * extent * x + width * (fnum - 100 * extent)) / (2 * fnum).
apply_perspective(image, s) ==
    LET w == image.w
        h == image.h
        stretch == Uniform(s, 5, 25)
        corner == Choice(RngNext(s), Corners)
        src_x(x, y) ==
            IF corner = "top"
            THEN Trunc(200 * h * x + w * stretch * (h - y), 2 * (100 * h + stretch * (h - y)))
            ELSE IF corner = "bottom"
            THEN Trunc(200 * h * x + w * stretch * y, 2 * (100 * h + stretch * y))
            ELSE x
        src_y(x, y) ==
            IF corner = "left"
            THEN Trunc(200 * w * y + h * stretch * (w - x), 2 * (100 * w + stretch * (w - x)))
            ELSE IF corner = "right"
            THEN Trunc(200 * w * y + h * stretch * x, 2 * (100 * w + stretch * x))
            ELSE y
        src == [x \in 0..(w - 1), y \in 0..(h - 1) |-> <<src_x(x, y), src_y(x, y)>>]
    IN [img |-> Remap(image, src), rng |-> RngNext(RngNext(s)), ndraws |-> 2]

\* A variant that applies the distortions in the order the list names them.
RECURSIVE DistortInListedOrder(_, _, _, _)
DistortInListedOrder(enabled, image, s, n) ==
    IF enabled = <<>> THEN [img |-> image, rng |-> s, ndraws |-> n]
    ELSE LET r == IF Head(enabled) = "shear" THEN apply_shear(image, s)
                  ELSE IF Head(enabled) = "fisheye" THEN apply_fisheye(image, s)
                  ELSE apply_perspective(image, s)
         IN DistortInListedOrder(Tail(enabled), r.img, r.rng, n + r.ndraws)

apply_distortions_listed(enabled, image, s) == DistortInListedOrder(enabled, image, s, 0)

\* enabled is self.enabled_distortions; each test is a membership test.
apply_distortions(enabled, image, s) ==
    LET r0 == [img |-> image, rng |-> s, ndraws |-> 0]
        Step(r, name, r1) ==
            IF name \in Range(enabled)
            THEN [img |-> r1.img, rng |-> r1.rng, ndraws |-> r.ndraws + r1.ndraws]
            ELSE r
        r1 == Step(r0, "shear", apply_shear(r0.img, r0.rng))
        r2 == Step(r1, "fisheye", apply_fisheye(r1.img, r1.rng))
        r3 == Step(r2, "perspective", apply_perspective(r2.img, r2.rng))
    IN r3

(***************************************************************************)
(* TextRenderer.render_text                                                *)
(*                                                                         *)
(* A word is a sequence of one-character strings.  Glyph shapes are the    *)
(* font library's: every font is modelled as a block font, whose text      *)
(* fills its bounding box, and whose blank characters leave no ink.        *)
(***************************************************************************)
Blank == {" "}

HasInk(word) == \E i \in 1..Len(word) : word[i] \notin Blank

\* draw.textbbox((0, 0), text, font): (width, height) of the text.
TextBBox(word, font) ==
    IF font.kind = "builtin" THEN <<6 * Len(word), 11>>
    ELSE IF font.path = "impact.ttf" THEN <<Len(word) * (font.size \div 2), font.size>>
    ELSE <<Len(word) * ((font.size * 3) \div 5), font.size>>

\* draw_text_with_outline: the text stamped in black at every offset
\* (adj_x, adj_y) with |adj_x|, |adj_y| <= outline_width other than (0, 0),
\* then once in white at (x, y).
draw_text_with_outline(image, word, x, y, font, outline_width) ==
    LET tw == TextBBox(word, font)[1]
        th == TextBBox(word, font)[2]
        Stamped(px, py, at_x, at_y) ==
            at_x <= px /\ px < at_x + tw /\ at_y <= py /\ py < at_y + th
    IN [w |-> image.w, h |-> image.h,
        px |-> [px \in 0..(image.w - 1), py \in 0..(image.h - 1) |->
                   IF ~HasInk(word) THEN GetPixel(image, px, py)
                   ELSE IF Stamped(px, py, x, y) THEN 255
                   ELSE IF \E adj_x \in (px - x - tw + 1)..(px - x) :
                              /\ -outline_width <= adj_x /\ adj_x <= outline_width
                              /\ \E adj_y \in (py - y - th + 1)..(py - y) :
                                    /\ -outline_width <= adj_y /\ adj_y <= outline_width
                                    /\ (adj_x # 0 \/ adj_y # 0)
                        THEN 0
                        ELSE GetPixel(image, px, py)]]

\* render_text.  Draws: the size variation, the font choice (with named
\* fonts), an offset for each axis that has room.
render_text(word, canvas_size, target_width, target_height, scale_factor, env, paths, cache, s) ==
    LET sized == calculate_font_size(Len(word), target_width, target_height, s)
        got == get_font(env, paths, cache, sized.rng, sized.size)
        bbox == TextBBox(word, got.font)
        text_width == bbox[1]
        text_height == bbox[2]
        max_offset_x == Max(0, (target_width - text_width) \div 3)
        max_offset_y == Max(0, (target_height - text_height) \div 3)
        s1 == got.rng
        offset_x == IF max_offset_x > 0 THEN RandInt(s1, -max_offset_x, max_offset_x) ELSE 0
        s2 == IF max_offset_x > 0 THEN RngNext(s1) ELSE s1
        offset_y == IF max_offset_y > 0 THEN RandInt(s2, -max_offset_y, max_offset_y) ELSE 0
        s3 == IF max_offset_y > 0 THEN RngNext(s2) ELSE s2
        text_x == ((canvas_size - text_width) \div 2) + offset_x
        text_y == ((canvas_size - text_height) \div 2) + offset_y
    IN IF sized.raised # "none"
       THEN [raised |-> sized.raised, rng |-> sized.rng, ndraws |-> sized.ndraws,
             cache |-> cache, warned |-> FALSE]
       ELSE [raised |-> got.raised,
             img |-> draw_text_with_outline(
                         NewImage(canvas_size, canvas_size, Background), word,
                         text_x, text_y, got.font, 2 * scale_factor),
             rng |-> s3,
             ndraws |-> sized.ndraws + got.ndraws
                        + (IF max_offset_x > 0 THEN 1 ELSE 0)
                        + (IF max_offset_y > 0 THEN 1 ELSE 0),
             cache |-> got.cache, warned |-> got.warned]

(***************************************************************************)
(* WordGenerator.apply_rotation                                            *)
(***************************************************************************)
\* cos and sin of the angles the generator model draws, in thousandths.
Cos1000(angle) ==
    IF angle = 0 THEN 1000
    ELSE IF angle = 7 \/ angle = -7 THEN 993
    ELSE IF angle = 8 \/ angle = -8 THEN 990
    ELSE 966

Sin1000(angle) ==
    LET a == IF angle >= 0 THEN angle ELSE -angle
        v == IF a = 0 THEN 0 ELSE IF a = 7 THEN 122 ELSE IF a = 8 THEN 139 ELSE 259
    IN IF angle >= 0 THEN v ELSE -v

\* image.rotate(angle, expand=False, fillcolor=255): nearest-neighbour inverse
\* mapping about the centre (w / 2, h / 2), sampled at pixel centres.
Rotate(image, angle) ==
    LET c == Cos1000(angle)
        sn == Sin1000(angle)
        src == [x \in 0..(image.w - 1), y \in 0..(image.h - 1) |->
                   <<(c * (2 * x + 1 - image.w) - sn * (2 * y + 1 - image.h)
                        + 1000 * image.w) \div 2000,
                     (sn * (2 * x + 1 - image.w) + c * (2 * y + 1 - image.h)
                        + 1000 * image.h) \div 2000>>]
    IN IF angle = 0 THEN image ELSE Remap(image, src)

\* One draw: the angle in [-15, 15] degrees.
apply_rotation(image, s) ==
    [img |-> Rotate(image, Uniform(s, -15, 15)), rng |-> RngNext(s), ndraws |-> 1]

(***************************************************************************)
(* WordGenerator.apply_dithering                                           *)
(***************************************************************************)
Clip8(v) == Max(0, Min(v, 255))

\* The pixels lo..hi-1 of an image in row-major order.
RECURSIVE PixelsFrom(_, _, _)
PixelsFrom(image, lo, hi) ==
    IF hi <= lo THEN <<>>
    ELSE IF hi = lo + 1 THEN <<GetPixel(image, lo % image.w, lo \div image.w)>>
    ELSE LET mid == (lo + hi) \div 2
         IN PixelsFrom(image, lo, mid) \o PixelsFrom(image, mid, hi)

\* Pixel k (row-major, from 0) has been decided as `new` with quantization
\* error err: the row of pixels from index i on, where k holds `new` and the
\* right, lower-left, lower and lower-right neighbours of k receive 7/16,
\* 3/16, 5/16 and 1/16 of the error, clamped to 0..255.
RECURSIVE DiffuseFrom(_, _, _, _, _, _)
DiffuseFrom(pixels, w, k, new, err, i) ==
    IF i > Len(pixels) THEN <<>>
    ELSE LET x == k % w
             y == k \div w
             xi == (i - 1) % w
             yi == (i - 1) \div w
             share == IF xi = x + 1 /\ yi = y THEN 7
                      ELSE IF xi = x - 1 /\ yi = y + 1 THEN 3
                      ELSE IF xi = x /\ yi = y + 1 THEN 5
                      ELSE IF xi = x + 1 /\ yi = y + 1 THEN 1
                      ELSE 0
             v == IF i - 1 = k THEN new
                  ELSE IF share = 0 THEN pixels[i]
                  ELSE Clip8(pixels[i] + Trunc(err * share, 16))
         IN <<v>> \o DiffuseFrom(pixels, w, k, new, err, i + 1)

\* Error diffusion in row-major order from pixel k on: pixels before k are
\* decided, pixels from k on hold their value plus the error received so far.
RECURSIVE DitherFrom(_, _, _)
DitherFrom(pixels, w, k) ==
    IF k = Len(pixels) THEN pixels
    ELSE LET old == pixels[k + 1]
             new == IF old > 127 THEN 255 ELSE 0
         IN CHOOSE done \in {DitherFrom(diffused, w, k + 1) :
                                diffused \in {DiffuseFrom(pixels, w, k, new, old - new, 1)}} :
                TRUE

\* A variant that returns the grey image undithered.
apply_dithering_skipped(image) == image

\* image.convert("1"): Floyd-Steinberg dithering to black (0) and white (255).
apply_dithering(image) ==
    LET dithered == DitherFrom(PixelsFrom(image, 0, image.w * image.h), image.w, 0)
    IN [w |-> image.w, h |-> image.h,
        px |-> [x \in 0..(image.w - 1), y \in 0..(image.h - 1) |->
                   dithered[y * image.w + x + 1]]]

\* A variant that leaves a mode "1" image as it is.
InvertKeep(image) == image

\* ImageOps.invert(image.convert("L"))
Invert(image) ==
    [w |-> image.w, h |-> image.h,
     px |-> [x \in 0..(image.w - 1), y \in 0..(image.h - 1) |->
                255 - GetPixel(image, x, y)]]

(***************************************************************************)
(* WordGenerator.generate                                                  *)
(***************************************************************************)
ScaleFactor == 4

\* An image object holds its own pixels: the same image, its pixels a table
\* rather than a rule that computes them from the image it was made from.
Stored(image) == [w |-> image.w, h |-> image.h, px |-> image.px @@ <<>>]

\* The stages of generate.  Each takes the outcome of the stage before it, a
\* record [raised, img, rng, ndraws, cache, warned] (no img when raised), and
\* hands an exception on.  cfg is the generator: [width, height, negate,
\* distortions].

\* rotated_img = self.apply_rotation(text_img); working_img = rotated_img.crop(...)
generate_working(cfg, text) ==
    LET large_width == cfg.width * ScaleFactor
        large_height == cfg.height * ScaleFactor
        canvas_size == Max(large_width, large_height) * 2
        rotated == apply_rotation(text.img, text.rng)
        left == (canvas_size - large_width) \div 2
        top == (canvas_size - large_height) \div 2
    IN IF text.raised # "none" THEN text
       ELSE [raised |-> "none",
             img |-> Stored(Crop(rotated.img,
                                 <<left, top, left + large_width, top + large_height>>)),
             rng |-> rotated.rng, ndraws |-> text.ndraws + rotated.ndraws,
             cache |-> text.cache, warned |-> text.warned]

\* distorted_img = self.distorter.apply_distortions(working_img)
generate_distorted(cfg, working) ==
    LET distorted == apply_distortions(EnabledDistortions(cfg.distortions),
                                       working.img, working.rng)
    IN IF working.raised # "none" THEN working
       ELSE [raised |-> "none", img |-> Stored(distorted.img),
             rng |-> distorted.rng, ndraws |-> working.ndraws + distorted.ndraws,
             cache |-> working.cache, warned |-> working.warned]

\* final_img = self.scale_to_target(distorted_img)
generate_final(cfg, distorted) ==
    LET final == scale_to_target(distorted.img, cfg.width, cfg.height)
    IN IF distorted.raised # "none" THEN distorted
       ELSE IF final.raised # "none"
       THEN [raised |-> final.raised, rng |-> distorted.rng,
             ndraws |-> distorted.ndraws, cache |-> distorted.cache,
             warned |-> distorted.warned]
       ELSE [raised |-> "none", img |-> Stored(final.img),
             rng |-> distorted.rng, ndraws |-> distorted.ndraws,
             cache |-> distorted.cache, warned |-> distorted.warned]

\* dithered_img = self.apply_dithering(final_img), then with self.negate
\* dithered_img = ImageOps.invert(dithered_img.convert("L")).convert("1")
generate_dithered(cfg, final) ==
    IF final.raised # "none" THEN final
    ELSE [raised |-> "none",
          img |-> Stored(IF cfg.negate
                         THEN apply_dithering(Invert(apply_dithering(final.img)))
                         ELSE apply_dithering(final.img)),
          rng |-> final.rng, ndraws |-> final.ndraws,
          cache |-> final.cache, warned |-> final.warned]

\* generate: render_text, then the stages above in turn.  env, paths and cache
\* are the generator's FontManager's; s is the state of the random generator.
generate(word, cfg, env, paths, cache, s) ==
    LET large_width == cfg.width * ScaleFactor
        large_height == cfg.height * ScaleFactor
        canvas_size == Max(large_width, large_height) * 2
    IN CHOOSE dithered \in
           {generate_dithered(cfg, final) : final \in
               {generate_final(cfg, distorted) : distorted \in
                   {generate_distorted(cfg, working) : working \in
                       {generate_working(cfg, text) : text \in
                           {render_text(word, canvas_size, large_width, large_height,
                                        ScaleFactor, env, paths, cache, s)}}}}} :
           TRUE

(***************************************************************************)
(* Isolated calls: the program variables are not used.                     *)
(***************************************************************************)
NoProgram ==
    /\ width = 0 /\ height = 0 /\ distortions = <<>>
    /\ font_names = <<>> /\ font_paths = <<>>
    /\ font_env = {} /\ negate = <<>> /\ seed = <<>> /\ rng = <<>>
    /\ calls = <<>> /\ outs = <<>> /\ draws = <<>> /\ raised = <<>>
    /\ font_cache = <<>> /\ warnings = <<>> /\ files = <<>>

NoCall == <<>>

(***************************************************************************)
(* SpecFontSize: calculate_font_size on every (text length, box, state).   *)
(***************************************************************************)
InitIsolated ==
    /\ NoProgram
    /\ pc = "ready"
    /\ arg = NoCall
    /\ ret = NoCall

CallFontSize ==
    /\ pc = "ready"
    /\ \E n \in 0..MaxWordLen, mw \in 1..MaxBoxWidth, mh \in 1..MaxBoxHeight,
          s \in RngStates :
          /\ arg' = [n |-> n, max_width |-> mw, max_height |-> mh, rng |-> s]
          /\ ret' = calculate_font_size(n, mw, mh, s)
    /\ pc' = "done"
    /\ UNCHANGED progVars

NextFontSize == CallFontSize

SpecFontSize == InitIsolated /\ [][NextFontSize]_vars

\* The heuristic as stated, in units of 1/(10 n) so that max_width / n is
\* exact: the base before clamping, with true division.
C10_TrueBase(n, mw, mh) ==
    IF n <= 4 THEN Min(30 * mw, 7 * mh * n)
    ELSE IF n <= 7 THEN Min(25 * mw, 6 * mh * n)
    ELSE Min(20 * mw, 5 * mh * n)

\* The same with floor division, floor(max_width / n).
C10_FloorBase(n, mw, mh) ==
    IF n <= 4 THEN Min(30 * n * (mw \div n), 7 * mh * n)
    ELSE IF n <= 7 THEN Min(25 * n * (mw \div n), 6 * mh * n)
    ELSE Min(20 * n * (mw \div n), 5 * mh * n)

\* Clamp to [12, 64], times the jitter (hundredths), truncated, clamped again.
C10_Size(base, n, jitter) ==
    LET clamped == Max(120 * n, Min(base, 640 * n))
        sized   == (clamped * jitter) \div (1000 * n)
    IN Max(12, Min(sized, 64))

\* The jitter the call drew.
C10_Jitter == Uniform(arg.rng, 80, 120)

\* C10 (as claimed): for n >= 1 the returned size is the true-division
\* heuristic clamped to [12, 64], times a jitter in [0.8, 1.2], clamped again.
C10_TrueDivision ==
    (pc = "done" /\ arg.n >= 1) =>
        /\ ret.raised = "none"
        /\ ret.size \in 12..64
        /\ C10_Jitter \in 80..120
        /\ ret.size = C10_Size(C10_TrueBase(arg.n, arg.max_width, arg.max_height),
                               arg.n, C10_Jitter)

\* C10 (amended): the same with floor(max_width / n) in place of max_width / n.
C10_FloorDivision ==
    (pc = "done" /\ arg.n >= 1) =>
        /\ ret.raised = "none"
        /\ ret.size \in 12..64
        /\ C10_Jitter \in 80..120
        /\ ret.size = C10_Size(C10_FloorBase(arg.n, arg.max_width, arg.max_height),
                               arg.n, C10_Jitter)

\* A call where flooring matters: 23 // 4 * 3 = 15, not 17.25, and the result
\* lies strictly inside the clamp range.
C10_Witness ==
    /\ pc = "done" /\ arg.n = 4 /\ arg.max_width = 23 /\ arg.max_height = 96
    /\ C10_Jitter = 100 /\ ret.size = 15

(***************************************************************************)
(* SpecBounds: get_content_bounds on every small image.                    *)
(***************************************************************************)
ScanLevels == {0, 254, 255}

CallBounds ==
    /\ pc = "ready"
    /\ \E w \in 1..MaxScanWidth, h \in 1..MaxScanHeight :
          \E f \in [(0..(w - 1)) \X (0..(h - 1)) -> ScanLevels] :
              /\ arg' = [w |-> w, h |-> h, px |-> f]
              /\ ret' = get_content_bounds(arg')
    /\ pc' = "done"
    /\ UNCHANGED progVars

NextBounds == CallBounds

SpecBounds == InitIsolated /\ [][NextBounds]_vars

\* The pixels below the background level, and their tight box.
ContentOf(image) ==
    {p \in (0..(image.w - 1)) \X (0..(image.h - 1)) : image.px[p] < 255}

TightBox(image) ==
    LET c == ContentOf(image)
    IN <<SetMin({p[1] : p \in c}), SetMin({p[2] : p \in c}),
         SetMax({p[1] : p \in c}) + 1, SetMax({p[2] : p \in c}) + 1>>

\* C8: get_content_bounds returns the tight box (min x, min y, max x + 1,
\* max y + 1) of the pixels below 255 whenever there is such a pixel, and
\* the whole-image box only when there is none.
C8_TightBounds ==
    pc = "done" =>
        IF ContentOf(arg) # {}
        THEN ret = TightBox(arg)
        ELSE ret = <<0, 0, arg.w, arg.h>>

(***************************************************************************)
(* SpecDistort: apply_distortions on every enabled list, over test images. *)
(***************************************************************************)
\* A grey pattern with no symmetry, so that different remappings differ.
PatternImage(w, h, k) ==
    [w |-> w, h |-> h,
     px |-> [x \in 0..(w - 1), y \in 0..(h - 1) |-> (k * (37 * x + 59 * y + 11)) % 256]]

CallDistortions ==
    /\ pc = "ready"
    /\ \E enabled \in SeqsUpTo(Range(all_distortions), MaxEnabled),
          w \in 1..MaxDistortWidth, h \in 1..MaxDistortHeight,
          k \in 1..MaxPattern, s \in RngStates :
          /\ arg' = [enabled |-> enabled, img |-> PatternImage(w, h, k), rng |-> s]
          /\ ret' = apply_distortions(enabled, PatternImage(w, h, k), s)
    /\ pc' = "done"
    /\ UNCHANGED progVars

NextDistort == CallDistortions

SpecDistort == InitIsolated /\ [][NextDistort]_vars

\* One stage of the fixed order: applied to the previous stage's output when
\* its name is enabled, skipped otherwise.
C5_Stage(name, prev, applied) ==
    IF \E i \in 1..Len(arg.enabled) : arg.enabled[i] = name
    THEN [img |-> applied.img, rng |-> applied.rng,
          ndraws |-> prev.ndraws + applied.ndraws]
    ELSE prev

\* C5: whatever the order and repetitions of the enabled list, each enabled
\* distortion is applied exactly once, in the order shear, fisheye,
\* perspective, each on the previous stage's output; nothing enabled leaves
\* the input unchanged.
C5_FixedOrder ==
    pc = "done" =>
        LET start == [img |-> arg.img, rng |-> arg.rng, ndraws |-> 0]
            afterShear == C5_Stage("shear", start, apply_shear(start.img, start.rng))
            afterFisheye == C5_Stage("fisheye", afterShear,
                                     apply_fisheye(afterShear.img, afterShear.rng))
            afterPerspective == C5_Stage("perspective", afterFisheye,
                                         apply_perspective(afterFisheye.img,
                                                           afterFisheye.rng))
        IN /\ ret = afterPerspective
           /\ ret.img.w = arg.img.w /\ ret.img.h = arg.img.h
           /\ (arg.enabled = <<>> => ret.img = arg.img /\ ret.ndraws = 0)

\* A list naming perspective before shear, and shear twice, on which applying
\* the distortions as listed would give another image.
C5_Witness ==
    /\ pc = "done"
    /\ arg.enabled = <<"perspective", "shear", "shear">>
    /\ ret.ndraws = 4
    /\ ret.img # arg.img
    /\ ret.img # apply_distortions_listed(<<"perspective", "shear">>, arg.img, arg.rng).img

(***************************************************************************)
(* SpecScale: scale_to_target on images whose content is a rectangle.      *)
(***************************************************************************)
\* A w x h background image with the rectangle [l, r) x [t, b) at `level`.
BoxImage(w, h, l, t, r, b, level) ==
    [w |-> w, h |-> h,
     px |-> [x \in 0..(w - 1), y \in 0..(h - 1) |->
                IF l <= x /\ x < r /\ t <= y /\ y < b THEN level ELSE Background]]

CallScale ==
    /\ pc = "ready"
    /\ \E w \in 1..MaxCropWidth, h \in 1..MaxCropHeight,
          tw \in 1..MaxTargetWidth, th \in 1..MaxTargetHeight :
          \E l \in 0..w, r \in 0..w, t \in 0..h, b \in 0..h :
              /\ (l < r /\ t < b) \/ (l = 0 /\ r = 0 /\ t = 0 /\ b = 0)
              /\ arg' = [img |-> BoxImage(w, h, l, t, r, b, 0),
                         width |-> tw, height |-> th]
              /\ ret' = scale_to_target(BoxImage(w, h, l, t, r, b, 0), tw, th)
    /\ pc' = "done"
    /\ UNCHANGED progVars

NextScale == CallScale

SpecScale == InitIsolated /\ [][NextScale]_vars

\* C9: the crop (cw x ch, both >= 1) is scaled by min(W / cw, H / ch); the
\* scaled size is within 1..W by 1..H; it is pasted at the non-negative
\* offsets ((W - new_width) // 2, (H - new_height) // 2), inside a W x H canvas.
C9_ScaledInsideCanvas ==
    pc = "done" =>
        LET cw == ret.steps.crop[1]
            ch == ret.steps.crop[2]
            nw == ret.steps.new_size[1]
            nh == ret.steps.new_size[2]
            byWidth == arg.width * ch <= arg.height * cw
        IN /\ cw >= 1 /\ ch >= 1
           /\ nw = (IF byWidth THEN arg.width ELSE (cw * arg.height) \div ch)
           /\ nh = (IF byWidth THEN (ch * arg.width) \div cw ELSE arg.height)
           /\ 1 <= nw /\ nw <= arg.width
           /\ 1 <= nh /\ nh <= arg.height
           /\ ret.steps.offset = <<(arg.width - nw) \div 2, (arg.height - nh) \div 2>>
           /\ ret.steps.offset[1] >= 0 /\ ret.steps.offset[2] >= 0
           /\ ret.steps.offset[1] + nw <= arg.width
           /\ ret.steps.offset[2] + nh <= arg.height
           /\ ret.raised = "none"
           /\ ret.img.w = arg.width /\ ret.img.h = arg.height

(***************************************************************************)
(* SpecFont: a FontManager over every file system, and get_font calls.     *)
(***************************************************************************)
AllFontPaths == {"impact.ttf", "/sys/comic.ttf", LiberationPath, ArialPath}

FontEnvs ==
    {[exists |-> ExistingPaths, system |-> SystemPaths, loadable |-> l] :
        l \in SUBSET AllFontPaths}

FontSizes == {MinFontSize, MaxFontSize}

\* The per-run variables of a run that has not called anything yet.
FreshRuns ==
    /\ calls = [r \in Runs |-> <<>>]
    /\ outs = [r \in Runs |-> <<>>]
    /\ draws = [r \in Runs |-> 0]
    /\ raised = [r \in Runs |-> "none"]
    /\ font_cache = [r \in Runs |-> {}]
    /\ warnings = [r \in Runs |-> 0]
    /\ files = [r \in Runs |-> {}]

\* FontManager.__init__, in a process whose generator state is arbitrary.
InitFont ==
    /\ width = 0 /\ height = 0 /\ distortions = <<>>
    /\ negate = [r \in Runs |-> FALSE] /\ seed = [r \in Runs |-> None]
    /\ font_names \in SeqsUpTo(FontNames, MaxFontNames)
    /\ font_env \in FontEnvs
    /\ font_paths = resolve_font_paths(font_env, font_names)
    /\ rng \in [Runs -> RngStates]
    /\ rng[2] = 1
    /\ FreshRuns
    /\ pc = "fonts" /\ arg = NoCall /\ ret = NoCall

GetFont(r) ==
    /\ pc = "fonts"
    /\ Len(calls[r]) < MaxFontCalls
    /\ \E font_size \in FontSizes :
          LET res == get_font(font_env, font_paths, font_cache[r], rng[r], font_size)
          IN /\ calls' = [calls EXCEPT ![r] = Append(@, font_size)]
             /\ outs' = [outs EXCEPT ![r] = Append(@, [raised |-> res.raised,
                                   font |-> res.font, chosen |-> res.chosen,
                                   warned |-> res.warned])]
             /\ raised' = [raised EXCEPT ![r] = res.raised]
             /\ font_cache' = [font_cache EXCEPT ![r] = res.cache]
             /\ rng' = [rng EXCEPT ![r] = res.rng]
             /\ draws' = [draws EXCEPT ![r] = @ + res.ndraws]
             /\ warnings' = [warnings EXCEPT ![r] = @ + (IF res.warned THEN 1 ELSE 0)]
    /\ UNCHANGED <<width, height, distortions, font_names, font_paths, font_env,
                   negate, seed, files, arg, ret, pc>>

NextFont == GetFont(1)

SpecFont == InitFont /\ [][NextFont]_vars

\* The handle the fallback chain ends in when no named font is returned.
C7_Fallback(size) ==
    IF LiberationPath \in font_env.loadable
    THEN [kind |-> "truetype", path |-> LiberationPath, size |-> size]
    ELSE IF ArialPath \in font_env.loadable
    THEN [kind |-> "truetype", path |-> ArialPath, size |-> size]
    ELSE [kind |-> "builtin", path |-> None, size |-> 0]

\* C7: no get_font call raises; each returns the named font it chose when that
\* loads, and otherwise the default system font, and otherwise the built-in
\* font; a named font that fails to load costs one warning and nothing else.
C7_AlwaysAFont ==
    /\ raised[1] = "none"
    /\ \A i \in 1..Len(outs[1]) :
          LET o == outs[1][i]
              named == o.chosen # None /\ o.chosen \in font_env.loadable
          IN /\ o.raised = "none"
             /\ o.font.kind \in {"truetype", "builtin"}
             /\ (font_paths = <<>>) = (o.chosen = None)
             /\ o.chosen # None => \E j \in 1..Len(font_paths) : font_paths[j] = o.chosen
             /\ named => o.font = [kind |-> "truetype", path |-> o.chosen,
                                   size |-> calls[1][i]]
             /\ ~named => o.font = C7_Fallback(calls[1][i])
             /\ o.warned = (o.chosen # None /\ ~named)
    /\ warnings[1] = Cardinality({i \in 1..Len(outs[1]) : outs[1][i].warned})

\* Every load fails: a warning for the named font, then the built-in font.
C7_Witness ==
    \E i \in 1..Len(outs[1]) :
        /\ outs[1][i].warned /\ outs[1][i].font.kind = "builtin"
        /\ warnings[1] >= 2
        /\ \E j \in 1..Len(outs[1]) : outs[1][j].font.kind = "truetype"

(***************************************************************************)
(* Spec: two runs of the program.  Both construct a WordGenerator with the *)
(* same width, height, distortions and fonts, and the same seed; each has  *)
(* its own negate flag and its own process, hence its own generator state. *)
(* Run 1 calls generate on words of its choice; run 2 repeats run 1's      *)
(* calls in the same order.  An exception ends the run it is raised in.    *)
(* The runs share nothing, so only one interleaving is kept: both          *)
(* construct, then run 2 makes its k-th call right after run 1's.          *)
(***************************************************************************)
Words == {<<>>, <<" ">>, <<"A">>}

Seeds == {<<>>} \cup {<<n>> : n \in 0..MaxSeed}       \* <<>> is seed=None

DistortionConfigs == {None, <<"perspective", "shear">>}

\* (font_names, loadable paths): the default font; named fonts that load.
FontConfigs ==
    {<<<<>>, AllFontPaths>>,
     <<<<"impact.ttf", "Comic Sans">>, AllFontPaths>>}

\* A variant of the constructor that never seeds the generator.
SeedRngIgnored(sd, entropy) == entropy

\* __post_init__: random.seed(self.seed) unless the seed is None; the state
\* of an unseeded generator is the operating system's choice.
SeedRng(sd, entropy) == IF sd # <<>> THEN RngSeed(sd[1]) ELSE entropy

Config(r) == [width |-> width, height |-> height, negate |-> negate[r],
              distortions |-> distortions]

Init ==
    /\ width \in 1..MaxWidth /\ height \in 1..MaxHeight
    /\ distortions \in DistortionConfigs
    /\ \E fc \in FontConfigs :
          /\ font_names = fc[1]
          /\ font_env = [exists |-> ExistingPaths, system |-> SystemPaths,
                         loadable |-> fc[2]]
    /\ font_paths = resolve_font_paths(font_env, font_names)
    /\ negate = [r \in Runs |-> FALSE] /\ seed = [r \in Runs |-> <<>>]
    /\ rng = [r \in Runs |-> 1]
    /\ FreshRuns
    /\ pc = [r \in Runs |-> "new"] /\ arg = NoCall /\ ret = NoCall

Construct(r) ==
    /\ pc[r] = "new"
    /\ r = 2 => pc[1] # "new"
    /\ \E sd \in Seeds, ng \in BOOLEAN, entropy \in 1..MaxEntropy :
          /\ r = 2 => sd = seed[1]
          /\ seed' = [seed EXCEPT ![r] = sd]
          /\ negate' = [negate EXCEPT ![r] = ng]
          /\ rng' = [rng EXCEPT ![r] = SeedRng(sd, entropy)]
    /\ pc' = [pc EXCEPT ![r] = "ready"]
    /\ UNCHANGED <<width, height, distortions, font_names, font_paths, font_env,
                   calls, outs, draws, raised, font_cache, warnings, files, arg, ret>>

\* What a generate call of run r does to the run's state.
GenerateEffect(r, word, res) ==
    /\ calls' = [calls EXCEPT ![r] = Append(@, word)]
    /\ rng' = [rng EXCEPT ![r] = res.rng]
    /\ draws' = [draws EXCEPT ![r] = @ + res.ndraws]
    /\ font_cache' = [font_cache EXCEPT ![r] = res.cache]
    /\ warnings' = [warnings EXCEPT ![r] = @ + (IF res.warned THEN 1 ELSE 0)]
    /\ raised' = [raised EXCEPT ![r] = res.raised]
    /\ IF res.raised = "none"
       THEN /\ outs' = [outs EXCEPT ![r] = Append(@, res.img)]
            /\ pc' = pc
       ELSE /\ outs' = outs
            /\ pc' = [pc EXCEPT ![r] = "failed"]

Generate(r) ==
    /\ pc[r] = "ready" /\ pc[2] # "new"
    /\ Len(calls[r]) < MaxCalls
    /\ \E word \in Words :
          /\ r = 1 => Len(calls[1]) = Len(calls[2])
          /\ r = 2 => /\ Len(calls[2]) < Len(calls[1])
                      /\ word = calls[1][Len(calls[2]) + 1]
          /\ \E res \in {generate(word, Config(r), font_env, font_paths,
                                   font_cache[r], rng[r])} :
                GenerateEffect(r, word, res)
    /\ UNCHANGED <<width, height, distortions, font_names, font_paths, font_env,
                   negate, seed, files, arg, ret>>

Next == \E r \in Runs : Construct(r) \/ Generate(r)

Spec == Init /\ [][Next]_vars

(***************************************************************************)
(* Claims about generate (Spec).                                           *)
(***************************************************************************)
Returned == {<<r, k>> \in Runs \X (1..MaxCalls) : k <= Len(outs[r])}

Levels(image) == {image.px[p] : p \in DOMAIN image.px}

\* The two runs have made the same number of calls.
InStep == pc[2] # "new" /\ Len(calls[1]) = Len(calls[2])

C2_Deterministic ==
    (pc[2] # "new" /\ seed[1] # <<>> /\ negate[1] = negate[2]) =>
        /\ Len(outs[2]) <= Len(outs[1])
        /\ \A k \in 1..Len(outs[2]) : outs[2][k] = outs[1][k]
        /\ InStep => /\ outs[2] = outs[1]
                     /\ draws[2] = draws[1]
                     /\ rng[2] = rng[1]
                     /\ raised[2] = raised[1]

\* Two seeded runs with the same parameters have each made MaxCalls calls that
\* consumed draws and returned a bitmap with ink.
C2_Witness ==
    /\ InStep /\ seed[1] # <<>> /\ negate[1] = negate[2]
    /\ Len(outs[2]) = MaxCalls /\ draws[2] > 0
    /\ \E k \in 1..Len(outs[2]) : 0 \in Levels(outs[2][k])

C3_Complement(image) ==
    [w |-> image.w, h |-> image.h, px |-> [p \in DOMAIN image.px |-> 255 - image.px[p]]]

\* C3: for the same seed, parameters and calls, the run with negate set
\* returns the pixelwise complement of what the run without it returns, the
\* complement of that is the other run's bitmap again, and both consume the
\* same draws.
C3_NegateIsComplement ==
    (pc[2] # "new" /\ seed[1] # <<>> /\ negate[1] # negate[2]) =>
        /\ Len(outs[2]) <= Len(outs[1])
        /\ \A k \in 1..Len(outs[2]) :
              /\ outs[2][k] = C3_Complement(outs[1][k])
              /\ C3_Complement(outs[2][k]) = outs[1][k]
        /\ InStep => /\ Len(outs[2]) = Len(outs[1])
                     /\ draws[2] = draws[1]
                     /\ rng[2] = rng[1]
                     /\ raised[2] = raised[1]

\* A seeded run and its negated twin have each returned a bitmap with both
\* levels.
C3_Witness ==
    /\ InStep /\ seed[1] # <<>> /\ negate[1] # negate[2]
    /\ \E k \in 1..Len(outs[2]) : Levels(outs[2][k]) = {0, 255}

\* C4, as stated: no generate call raises, whatever the word.
C4_NeverRaises == \A r \in Runs : raised[r] = "none"

(***************************************************************************)
(* SpecBatch: one run constructs a WordGenerator and calls                 *)
(* process_word_list on an input file.  A line is a sequence of            *)
(* one-character strings, without its newline; the output directory is a   *)
(* set of <<filename, bitmap>> with one entry per filename.                *)
(***************************************************************************)
Lines ==
    {<<>>, <<" ">>, <<"#", "A">>, <<"A">>, <<"A", "!">>, <<" ", "A", " ">>,
     <<"A", "-", "A">>, <<"A", " ", "A">>}

\* str.strip()
strip(line) ==
    LET inked == {i \in 1..Len(line) : line[i] \notin Blank}
    IN IF inked = {} THEN <<>> ELSE SubSeq(line, SetMin(inked), SetMax(inked))

\* word.replace('!', '').replace('-', '_').replace(' ', '_')
RECURSIVE Replaced(_)
Replaced(word) ==
    IF word = <<>> THEN <<>>
    ELSE IF Head(word) = "!" THEN Replaced(Tail(word))
    ELSE <<IF Head(word) \in {"-", " "} THEN "_" ELSE Head(word)>> \o Replaced(Tail(word))

\* f"{...}.png"
Filename(word) == Replaced(word) \o <<".png">>

\* dithered_img.save(output_path): creates the file or replaces its content.
Save(fs, filename, image) == {f \in fs : f[1] # filename} \cup {<<filename, image>>}

\* One pass of the loop body that reached generate: st is the run so far,
\* res what generate(word, output_path) did.
Generated(st, word, res) ==
    [files |-> IF res.raised = "none" THEN Save(st.files, Filename(word), res.img)
               ELSE st.files,
     calls |-> Append(st.calls, word),
     outs |-> IF res.raised = "none" THEN Append(st.outs, res.img) ELSE st.outs,
     rng |-> res.rng, ndraws |-> st.ndraws + res.ndraws, cache |-> res.cache,
     warned |-> st.warned + (IF res.warned THEN 1 ELSE 0),
     raised |-> res.raised]

\* for word in words, from words[i] on; an exception ends the loop.
RECURSIVE ProcessFrom(_, _, _, _, _, _)
ProcessFrom(words, i, cfg, env, paths, st) ==
    IF i > Len(words) \/ st.raised # "none" THEN st
    ELSE IF words[i] = <<>> \/ Head(words[i]) = "#"
    THEN ProcessFrom(words, i + 1, cfg, env, paths, st)
    ELSE CHOOSE done \in
             {ProcessFrom(words, i + 1, cfg, env, paths, after) : after \in
                 {Generated(st, words[i], res) : res \in
                     {generate(words[i], cfg, env, paths, st.cache, st.rng)}}} :
             TRUE

\* process_word_list: words = [line.strip() for line in f if line.strip()]
process_word_list(lines, cfg, env, paths, cache, s, fs) ==
    LET stripped == [i \in 1..Len(lines) |-> strip(lines[i])]
        words == SelectSeq(stripped, LAMBDA word : word # <<>>)
    IN ProcessFrom(words, 1, cfg, env, paths,
                   [files |-> fs, calls |-> <<>>, outs |-> <<>>, rng |-> s,
                    ndraws |-> 0, cache |-> cache, warned |-> 0, raised |-> "none"])

ProcessWordList ==
    /\ pc[1] = "ready"
    /\ \E lines \in SeqsUpTo(Lines, MaxLines) :
          \E st \in {process_word_list(lines, Config(1), font_env, font_paths,
                                       font_cache[1], rng[1], files[1])} :
             /\ arg' = lines
             /\ files' = [files EXCEPT ![1] = st.files]
             /\ calls' = [calls EXCEPT ![1] = @ \o st.calls]
             /\ outs' = [outs EXCEPT ![1] = @ \o st.outs]
             /\ rng' = [rng EXCEPT ![1] = st.rng]
             /\ draws' = [draws EXCEPT ![1] = @ + st.ndraws]
             /\ font_cache' = [font_cache EXCEPT ![1] = st.cache]
             /\ warnings' = [warnings EXCEPT ![1] = @ + st.warned]
             /\ raised' = [raised EXCEPT ![1] = st.raised]
             /\ pc' = [pc EXCEPT ![1] = IF st.raised = "none" THEN "done" ELSE "failed"]
    /\ UNCHANGED <<width, height, distortions, font_names, font_paths, font_env,
                   negate, seed, ret>>

NextBatch == Construct(1) \/ ProcessWordList

SpecBatch == Init /\ [][NextBatch]_vars

\* The input lines that are non-blank after trimming and do not begin with
\* '#', trimmed, in file order.
WordLines(lines) ==
    SelectSeq([i \in 1..Len(lines) |-> strip(lines[i])],
              LAMBDA word : word # <<>> /\ Head(word) # "#")

\* C6, as stated: after process_word_list the output directory holds as many
\* files as the input has lines that are non-blank after trimming and do not
\* begin with '#', and each such line was generated exactly once, in file
\* order.
C6_OneFilePerWord ==
    pc[1] \in {"done", "failed"} =>
        /\ Cardinality(files[1]) = Len(WordLines(arg))
        /\ calls[1] = WordLines(arg)

(***************************************************************************)
(* SpecFisheye: apply_fisheye on test images, from every generator state.  *)
(***************************************************************************)
\* Pattern 0 is a checkerboard of black and background; the others are grey.
FisheyeImage(w, h, k) ==
    IF k = 0
    THEN [w |-> w, h |-> h,
          px |-> [x \in 0..(w - 1), y \in 0..(h - 1) |->
                     IF (x + y) % 2 = 0 THEN 0 ELSE Background]]
    ELSE PatternImage(w, h, k)

CallFisheye ==
    /\ pc = "ready"
    /\ \E w \in 1..MaxFisheyeWidth, h \in 1..MaxFisheyeHeight,
          k \in 0..MaxPattern, s \in RngStates :
          /\ arg' = [img |-> FisheyeImage(w, h, k), rng |-> s]
          /\ ret' = apply_fisheye(FisheyeImage(w, h, k), s)
    /\ pc' = "done"
    /\ UNCHANGED progVars

NextFisheye == CallFisheye

SpecFisheye == InitIsolated /\ [][NextFisheye]_vars

\* The centre, the strength (twentieths) and ten times the radius of the call.
C11_CenterX ==
    (arg.img.w \div 2) + RandInt(arg.rng, (-arg.img.w) \div 6, arg.img.w \div 6)

C11_CenterY ==
    (arg.img.h \div 2) + RandInt(RngNext(arg.rng), (-arg.img.h) \div 6, arg.img.h \div 6)

C11_Strength == Uniform(RngNext(RngNext(arg.rng)), 6, 18)

C11_Radius10 == 7 * Min(arg.img.w, arg.img.h)

C11_Dist2(x, y) ==
    (x - C11_CenterX) * (x - C11_CenterX) + (y - C11_CenterY) * (y - C11_CenterY)

\* 0 < d < r
C11_Inside(x, y) ==
    C11_Dist2(x, y) > 0 /\ 100 * C11_Dist2(x, y) < C11_Radius10 * C11_Radius10

\* t = int(center + delta / factor): with v = center + delta / factor,
\* t <= v < t + 1 when v >= 0 and t - 1 < v <= t when v < 0.
C11_IsSource(t, center, delta, dist2) ==
    IF FisheyeLeq(-center, delta, dist2, C11_Strength, C11_Radius10)
    THEN /\ FisheyeLeq(t - center, delta, dist2, C11_Strength, C11_Radius10)
         /\ ~FisheyeLeq(t + 1 - center, delta, dist2, C11_Strength, C11_Radius10)
    ELSE /\ FisheyeGeq(t - center, delta, dist2, C11_Strength, C11_Radius10)
         /\ ~FisheyeGeq(t - 1 - center, delta, dist2, C11_Strength, C11_Radius10)

\* The in-bounds inverse-mapped sources of (x, y): one position or none.
C11_Sources(x, y) ==
    {p \in DOMAIN arg.img.px :
        /\ C11_IsSource(p[1], C11_CenterX, x - C11_CenterX, C11_Dist2(x, y))
        /\ C11_IsSource(p[2], C11_CenterY, y - C11_CenterY, C11_Dist2(x, y))}

\* C11: apply_fisheye keeps the dimensions; each destination pixel is the
\* input pixel at its inverse-mapped source when 0 < d < r and the source is
\* in bounds, and the input's own pixel at (x, y) otherwise; so every value of
\* the result is a value of the input, and a background pixel of the result
\* is copied from a background pixel of the input.
C11_FisheyeCopies ==
    pc = "done" =>
        /\ ret.img.w = arg.img.w /\ ret.img.h = arg.img.h
        /\ DOMAIN ret.img.px = DOMAIN arg.img.px
        /\ \A p \in DOMAIN arg.img.px :
              IF C11_Inside(p[1], p[2]) /\ C11_Sources(p[1], p[2]) # {}
              THEN \A q \in C11_Sources(p[1], p[2]) : ret.img.px[p] = arg.img.px[q]
              ELSE ret.img.px[p] = arg.img.px[p]
        /\ Levels(ret.img) \subseteq Levels(arg.img)

\* A call on the checkerboard that moves ink: a pixel inside the radius takes
\* the other level from its source, the centre and a pixel outside the radius
\* keep their own, and a black pixel outside the radius stays black.
C11_Witness ==
    /\ pc = "done" /\ Levels(arg.img) = {0, Background}
    /\ \E p \in DOMAIN arg.img.px :
          /\ C11_Inside(p[1], p[2])
          /\ \E q \in C11_Sources(p[1], p[2]) : q # p /\ arg.img.px[q] # arg.img.px[p]
          /\ ret.img.px[p] # arg.img.px[p]
    /\ \E p \in DOMAIN arg.img.px : C11_Dist2(p[1], p[2]) = 0
    /\ \E p \in DOMAIN arg.img.px :
          /\ ~C11_Inside(p[1], p[2]) /\ C11_Dist2(p[1], p[2]) > 0
          /\ arg.img.px[p] = 0 /\ ret.img.px[p] = 0

(***************************************************************************)
(* Font resolution at construction (SpecFont).                             *)
(***************************************************************************)
\* The path a configured name stands for: the name itself when it is an
\* existing file, what the system lookup finds otherwise (None: unresolvable).
C12_PathOf(font_name) ==
    IF font_name \in font_env.exists THEN font_name ELSE font_env.system[font_name]

\* C12, as stated: font_paths holds exactly one path per resolvable
\* configured name, in order, and none per unresolvable name, so that each
\* get_font call chooses among the configured, resolvable fonts with equal
\* weight.
C12_OnePathPerName ==
    /\ font_paths = SelectSeq([i \in 1..Len(font_names) |-> C12_PathOf(font_names[i])],
                              LAMBDA path : path # None)
    /\ \A i \in 1..Len(outs[1]) :
          outs[1][i].chosen # None =>
              \E k \in 1..Len(font_names) : outs[1][i].chosen = C12_PathOf(font_names[k])

====
